---- MODULE Spec2Model ----
(***************************************************************************)
(* A model of SubtitleWriter (src/subtitle_writer.py): the sanitizer, the  *)
(* merger, the two chunkers, the duration allocation, the two-line layout  *)
(* and the .srt serializer, as write_srt runs them.                        *)
(*                                                                         *)
(* Texts are sequences of characters; one element of a sequence is one     *)
(* Python str character.  Characters outside ASCII carry ASCII names       *)
(* ("fwcomma" is U+FF0C, "ni" is U+4F60, "note" is U+266A, ...): a name    *)
(* is one character whatever its spelling.                                 *)
(* Times are Python floats in the source; here they are exact rationals    *)
(* [n |-> numerator, d |-> denominator > 0] in lowest terms, so rounding   *)
(* error of the float arithmetic is not part of the model.                 *)
(***************************************************************************)
EXTENDS Integers, Sequences, FiniteSets, TLC

VARIABLES
    cfg,        \* the writer's configuration (the fields set by __init__)
    jieba,      \* whether the import of jieba succeeded (module level)
    pc,         \* "idle" before write_srt is called, "done" after it returned
    segments,   \* the argument of write_srt
    tok_glue,   \* the token boundaries jieba.cut left out in this call
    cleaned,    \* write_srt's list `cleaned`
    merged,     \* write_srt's list `merged`
    seg_durs,   \* per merged segment, the durations given to its chunks
    seg_subs,   \* per merged segment, what _split_and_time returned
    output,     \* the entries written to the output file, in order
    san_in,     \* sanitizer runs: the text handed in
    san_hist,   \* sanitizer runs: the result of each pass so far
    chunk_in,   \* chunker runs: the words or tokens of the text handed in
    chunk_out,  \* chunker runs: the list the chunker returned
    chunk_pc,   \* chunker runs: "idle" before the call, "done" after it
    language,   \* main.py: `language`, "auto" standing for None
    video_files,    \* main.py: the videos found, each with what is on disk
                    \* beside it and what its transcription gives
    idx,        \* main.py: how many videos the loop has been through
    success_count,  \* main.py
    error_count,    \* main.py
    out_srt,    \* main.py: per video gone through, the state of its .srt
    write_srt_args, \* main.py: per video gone through, the arguments of its
                    \* call of write_srt, <<>> if there was none
    raised_in   \* main.py: per video gone through, the call whose exception
                \* reached line 96, "" if there was none

vars == <<cfg, jieba, pc, segments, tok_glue, cleaned, merged, seg_durs,
          seg_subs, output, san_in, san_hist, chunk_in, chunk_out, chunk_pc,
          language, video_files, idx, success_count, error_count, out_srt,
          write_srt_args, raised_in>>

writerVars == <<jieba, pc, segments, tok_glue, cleaned, merged, seg_durs,
                seg_subs, output>>

sanVars == <<san_in, san_hist>>

chunkVars == <<chunk_in, chunk_out, chunk_pc>>

mainVars == <<language, video_files, idx, success_count, error_count, out_srt,
              write_srt_args, raised_in>>

\* no sanitizer run of its own
IdleSan ==
    /\ san_in = <<>>
    /\ san_hist = <<>>

\* no chunker run of its own
IdleChunker ==
    /\ chunk_in = <<>>
    /\ chunk_out = <<>>
    /\ chunk_pc = "idle"

\* main.py not started
IdleMain ==
    /\ language = "auto"
    /\ video_files = <<>>
    /\ idx = 0
    /\ success_count = 0
    /\ error_count = 0
    /\ out_srt = <<>>
    /\ write_srt_args = <<>>
    /\ raised_in = <<>>

----------------------------------------------------------------------------
(* Bounds of the model *)

MaxSegs == 2        \* segments in one call of write_srt
MaxTextLen == 5     \* characters of an exhaustively enumerated segment text
MaxTick == 3        \* segment durations run over 0, 3/4, ..., MaxTick * 3/4 seconds
MaxGlue == 1        \* jieba may keep the first MaxGlue token boundaries closed
MaxSanLen == 5      \* characters of a text handed to the sanitizer alone

----------------------------------------------------------------------------
(* Sequences *)

Max(a, b) == IF a >= b THEN a ELSE b
Min(a, b) == IF a <= b THEN a ELSE b

\* Python s[i:j] for 0 <= i, on 0-based offsets
Slice(s, i, j) == SubSeq(s, i + 1, Min(j, Len(s)))

\* every sequence over S of length 0..n
SeqsUpTo(S, n) == UNION {[1..k -> S] : k \in 0..n}

RECURSIVE Concat(_)
Concat(ss) == IF ss = <<>> THEN <<>> ELSE Head(ss) \o Concat(Tail(ss))

RECURSIVE SumLen(_)
SumLen(ss) == IF ss = <<>> THEN 0 ELSE Len(Head(ss)) + SumLen(Tail(ss))

----------------------------------------------------------------------------
(* Rationals *)

RECURSIVE GCD(_, _)
GCD(a, b) == IF b = 0 THEN a ELSE GCD(b, a % b)

Abs(x) == IF x < 0 THEN -x ELSE x

\* n/d in lowest terms, d > 0
Rat(n, d) ==
    LET s == IF d < 0 THEN -1 ELSE 1
        g == GCD(Abs(n), Abs(d))
    IN  [n |-> (s * n) \div g, d |-> (s * d) \div g]

RInt(k) == [n |-> k, d |-> 1]
RZero == RInt(0)
RAdd(a, b) == Rat(a.n * b.d + b.n * a.d, a.d * b.d)
RSub(a, b) == Rat(a.n * b.d - b.n * a.d, a.d * b.d)
RMul(a, b) == Rat(a.n * b.n, a.d * b.d)
RDiv(a, b) == Rat(a.n * b.d, a.d * b.n)
RLe(a, b) == a.n * b.d <= b.n * a.d
RLt(a, b) == a.n * b.d < b.n * a.d
RMax(a, b) == IF RLe(b, a) THEN a ELSE b
RMin(a, b) == IF RLe(a, b) THEN a ELSE b
RAbs(a) == [n |-> Abs(a.n), d |-> a.d]

RECURSIVE RSum(_)
RSum(rs) == IF rs = <<>> THEN RZero ELSE RAdd(Head(rs), RSum(Tail(rs)))

----------------------------------------------------------------------------
(* Character classes *)

\* what \s matches and str.strip() removes
WS == {" ", "\t", "\n"}

\* the class [,.!?;:] of _clean_text
LatinPunct == {",", ".", "!", "?", ";", ":"}

\* U+FF0C U+3002 U+3001 U+FF1F U+FF01 U+FF1B U+FF1A U+2026 U+2014 and , . ? ! ; :
CJK_PUNCTS == {"fwcomma", "fwstop", "dun", "fwquestion", "fwbang", "fwsemi",
               "fwcolon", "ellipsis", "emdash", ",", ".", "?", "!", ";", ":"}

UpperCase == <<"A", "B", "C", "D", "E", "F", "G", "H", "I", "J", "K", "L", "M",
               "N", "O", "P", "Q", "R", "S", "T", "U", "V", "W", "X", "Y", "Z">>
LowerCase == <<"a", "b", "c", "d", "e", "f", "g", "h", "i", "j", "k", "l", "m",
               "n", "o", "p", "q", "r", "s", "t", "u", "v", "w", "x", "y", "z">>

\* the ideographs and accented letters the texts of the model use
\* (U+4F60 U+597D U+4E16 U+754C U+97F3 U+697D U+4E50 U+4E0D U+6E05 U+695A, u-acute)
Ideographs == {"ni", "hao", "shi", "jie", "yin", "gaku", "yue", "bu", "qing", "chu"}

\* what \w matches: letters, digits, the underscore
WordChars == {UpperCase[i] : i \in 1..26} \cup {LowerCase[i] : i \in 1..26}
             \cup {"0", "1", "2", "3", "4", "5", "6", "7", "8", "9", "_", "uacute"}
             \cup Ideographs

IsSpace(c) == c \in WS
IsWord(c) == c \in WordChars

\* re.I: a character and its other case match each other
Lower(c) == IF \E i \in 1..26 : UpperCase[i] = c
            THEN LowerCase[CHOOSE i \in 1..26 : UpperCase[i] = c]
            ELSE c

LowerText(t) == [i \in 1..Len(t) |-> Lower(t[i])]

\* str.strip()
RECURSIVE LStrip(_)
LStrip(t) == IF t # <<>> /\ IsSpace(Head(t)) THEN LStrip(Tail(t)) ELSE t

RECURSIVE RStrip(_)
RStrip(t) == IF t # <<>> /\ IsSpace(t[Len(t)]) THEN RStrip(SubSeq(t, 1, Len(t) - 1)) ELSE t

Strip(t) == RStrip(LStrip(t))

----------------------------------------------------------------------------
(* The sanitizer: _clean_text and _should_skip_segment *)

\* the first position >= i of t that holds no whitespace (Len(t) + 1 if none)
RECURSIVE WsRunEnd(_, _)
WsRunEnd(t, i) == IF i <= Len(t) /\ IsSpace(t[i]) THEN WsRunEnd(t, i + 1) ELSE i

\* re.sub(r'\s+', ' ', text)
RECURSIVE CollapseWsFrom(_, _)
CollapseWsFrom(t, i) ==
    IF i > Len(t) THEN <<>>
    ELSE IF IsSpace(t[i]) THEN <<" ">> \o CollapseWsFrom(t, WsRunEnd(t, i))
    ELSE <<t[i]>> \o CollapseWsFrom(t, i + 1)

\* what text.replace('  ', ' ') would do instead: each pair of whitespace
\* characters, left to right, becomes one space
RECURSIVE MutCollapsePairsFrom(_, _)
MutCollapsePairsFrom(t, i) ==
    IF i > Len(t) THEN <<>>
    ELSE IF IsSpace(t[i]) /\ i < Len(t) /\ IsSpace(t[i + 1])
         THEN <<" ">> \o MutCollapsePairsFrom(t, i + 2)
    ELSE <<t[i]>> \o MutCollapsePairsFrom(t, i + 1)

MutCollapseWs(t) == MutCollapsePairsFrom(t, 1)

CollapseWs(t) == CollapseWsFrom(t, 1)

\* re.sub(r'\s+([,.!?;:])', r'\1', text)
RECURSIVE DropWsBeforePunctFrom(_, _)
DropWsBeforePunctFrom(t, i) ==
    IF i > Len(t) THEN <<>>
    ELSE IF IsSpace(t[i])
         THEN LET j == WsRunEnd(t, i)
              IN  IF j <= Len(t) /\ t[j] \in LatinPunct
                  THEN <<t[j]>> \o DropWsBeforePunctFrom(t, j + 1)
                  ELSE <<t[i]>> \o DropWsBeforePunctFrom(t, i + 1)
    ELSE <<t[i]>> \o DropWsBeforePunctFrom(t, i + 1)

DropWsBeforePunct(t) == DropWsBeforePunctFrom(t, 1)

\* re.sub(r'([,.!?;:])(\w)', r'\1 \2', text)
RECURSIVE SpaceAfterPunctFrom(_, _)
SpaceAfterPunctFrom(t, i) ==
    IF i > Len(t) THEN <<>>
    ELSE IF t[i] \in LatinPunct /\ i < Len(t) /\ IsWord(t[i + 1])
         THEN <<t[i], " ", t[i + 1]>> \o SpaceAfterPunctFrom(t, i + 2)
    ELSE <<t[i]>> \o SpaceAfterPunctFrom(t, i + 1)

SpaceAfterPunct(t) == SpaceAfterPunctFrom(t, 1)

_clean_text(c, text) ==
    IF c.cjk_mode THEN Strip(text)
    ELSE Strip(SpaceAfterPunct(DropWsBeforePunct(CollapseWs(text))))

\* _punct_only: ^[\s\W_]+$
PunctOnly(t) == t # <<>> /\ \A i \in 1..Len(t) : IsSpace(t[i]) \/ ~IsWord(t[i]) \/ t[i] = "_"

MusicWords == {<<"note">>, <<"notes">>, <<"m", "u", "s", "i", "c">>,
               <<"m", "uacute", "s", "i", "c", "a">>, <<"yin", "gaku">>, <<"yin", "yue">>}

NoiseWords == {<<"n", "o", "i", "s", "e">>, <<"s", "t", "a", "t", "i", "c">>,
               <<"s", "i", "l", "e", "n", "c", "e">>,
               <<"i", "n", "a", "u", "d", "i", "b", "l", "e">>,
               <<"u", "n", "i", "n", "t", "e", "l", "l", "i", "g", "i", "b", "l", "e">>,
               <<"bu", "qing", "chu">>}

\* ^[\s\[\(]*(?:w1|w2|...)[\s\]\)]*$ with re.I
BracketedWord(t, words) ==
    \E i \in 0..Len(t) : \E j \in i..Len(t) :
        /\ \A k \in 1..i : IsSpace(t[k]) \/ t[k] \in {"[", "("}
        /\ LowerText(SubSeq(t, i + 1, j)) \in words
        /\ \A k \in (j + 1)..Len(t) : IsSpace(t[k]) \/ t[k] \in {"]", ")"}

\* _should_skip_segment without the test of _punct_only
MutSkipNoPunctOnly(text) ==
    \/ text = <<>>
    \/ BracketedWord(text, MusicWords)
    \/ BracketedWord(text, NoiseWords)
    \/ Len(Strip(text)) < 1

_should_skip_segment(text) ==
    \/ text = <<>>
    \/ PunctOnly(text)
    \/ BracketedWord(text, MusicWords)
    \/ BracketedWord(text, NoiseWords)
    \/ Len(Strip(text)) < 1

----------------------------------------------------------------------------
(* The merger: the fold of write_srt over `cleaned` *)

\* the fold with the gap test `<=` in place of `<`
MutMergeStepGapLe(c, cur, nxt) ==
    LET gap == RSub(nxt.start, cur.end)
    IN  IF RLe(gap, c.merge_short_gap)
           /\ Len(cur.text) + Len(nxt.text) < c.merge_max_chars
        THEN [merged |-> <<>>,
              cur |-> [cur EXCEPT !.end = nxt.end,
                                  !.text = cur.text
                                           \o (IF c.cjk_mode THEN <<>> ELSE <<" ">>)
                                           \o nxt.text]]
        ELSE [merged |-> <<cur>>, cur |-> nxt]

MergeStep(c, cur, nxt) ==
    LET gap == RSub(nxt.start, cur.end)
    IN  IF RLt(gap, c.merge_short_gap)
           /\ Len(cur.text) + Len(nxt.text) < c.merge_max_chars
        THEN [merged |-> <<>>,
              cur |-> [cur EXCEPT !.end = nxt.end,
                                  !.text = cur.text
                                           \o (IF c.cjk_mode THEN <<>> ELSE <<" ">>)
                                           \o nxt.text]]
        ELSE [merged |-> <<cur>>, cur |-> nxt]

RECURSIVE MergeLoop(_, _, _, _)
MergeLoop(c, rest, cur, acc) ==
    IF rest = <<>> THEN Append(acc, cur)
    ELSE LET r == MergeStep(c, cur, Head(rest))
         IN  MergeLoop(c, Tail(rest), r.cur, acc \o r.merged)

\* `merged`, for a non-empty `cleaned`
Merge(c, cl) == MergeLoop(c, Tail(cl), Head(cl), <<>>)

----------------------------------------------------------------------------
(* The chunker for space-delimited text: _soft_split_chunks *)

RECURSIVE WordEnd(_, _)
WordEnd(t, i) == IF i <= Len(t) /\ ~IsSpace(t[i]) THEN WordEnd(t, i + 1) ELSE i

\* str.split()
RECURSIVE SplitFrom(_, _)
SplitFrom(t, i) ==
    IF i > Len(t) THEN <<>>
    ELSE IF IsSpace(t[i]) THEN SplitFrom(t, i + 1)
    ELSE <<SubSeq(t, i, WordEnd(t, i) - 1)>> \o SplitFrom(t, WordEnd(t, i))

Split(t) == SplitFrom(t, 1)

\* " ".join(ws)
RECURSIVE JoinSpace(_)
JoinSpace(ws) ==
    IF ws = <<>> THEN <<>>
    ELSE IF Len(ws) = 1 THEN ws[1]
    ELSE ws[1] \o <<" ">> \o JoinSpace(Tail(ws))

count_chars(ws) == IF ws = <<>> THEN 0 ELSE SumLen(ws) + Max(0, Len(ws) - 1)

\* lines 153-157: w[:limit], then the rest in pieces of `limit`
RECURSIVE HardCut(_, _)
HardCut(w, limit) ==
    IF Len(w) <= limit THEN <<w>>
    ELSE <<SubSeq(w, 1, limit)>> \o HardCut(SubSeq(w, limit + 1, Len(w)), limit)

RECURSIVE SoftSplitLoop(_, _, _, _)
SoftSplitLoop(words, chunks, current, limit) ==
    IF words = <<>>
    THEN IF current # <<>> THEN Append(chunks, JoinSpace(current)) ELSE chunks
    ELSE LET w == Head(words)
         IN  IF count_chars(Append(current, w)) <= limit
             THEN SoftSplitLoop(Tail(words), chunks, Append(current, w), limit)
             ELSE IF current = <<>>
                  THEN SoftSplitLoop(Tail(words), chunks \o HardCut(w, limit), <<>>, limit)
                  ELSE SoftSplitLoop(Tail(words), Append(chunks, JoinSpace(current)),
                                     <<w>>, limit)

_soft_split_chunks(c, text) ==
    SoftSplitLoop(Split(text), <<>>, <<>>, c.max_line_chars * c.max_lines_per_caption)

----------------------------------------------------------------------------
(* The logographic tokenizer and chunker *)

\* jieba.cut: the text cut into consecutive pieces. Which boundaries the
\* library leaves closed is its own affair: `glue` holds the positions i
\* with no cut between characters i and i + 1.
RECURSIVE TokenEnd(_, _, _)
TokenEnd(t, i, glue) == IF i < Len(t) /\ i \in glue THEN TokenEnd(t, i + 1, glue) ELSE i

RECURSIVE CutFrom(_, _, _)
CutFrom(t, i, glue) ==
    IF i > Len(t) THEN <<>>
    ELSE <<SubSeq(t, i, TokenEnd(t, i, glue))>> \o CutFrom(t, TokenEnd(t, i, glue) + 1, glue)

\* [t.strip() for t in ... if t.strip()]
RECURSIVE StripTokens(_)
StripTokens(toks) ==
    IF toks = <<>> THEN <<>>
    ELSE IF Strip(Head(toks)) = <<>> THEN StripTokens(Tail(toks))
    ELSE <<Strip(Head(toks))>> \o StripTokens(Tail(toks))

\* list(text.strip())
Chars(text) == [i \in 1..Len(Strip(text)) |-> <<Strip(text)[i]>>]

_tokenize_cjk(hasJieba, glue, text) ==
    IF hasJieba
    THEN LET toks == StripTokens(CutFrom(text, 1, glue))
         IN  IF toks # <<>> THEN toks ELSE Chars(text)
    ELSE Chars(text)

\* tok in CJK_PUNCTS
IsPunctToken(tok) == Len(tok) = 1 /\ tok[1] \in CJK_PUNCTS

\* the pass with `near_full` true from half of the limit on
MutChunkTokenStepHalfFull(tokens, i, st, limit) ==
    LET tok == tokens[i]
        tlen == Len(tok)
        s1 == IF st.cur_len + tlen > limit /\ st.cur # <<>>
              THEN [chunks |-> Append(st.chunks, Concat(st.cur)), cur |-> <<>>, cur_len |-> 0]
              ELSE st
        s2 == IF tlen <= limit
              THEN [s1 EXCEPT !.cur = Append(s1.cur, tok), !.cur_len = s1.cur_len + tlen]
              ELSE s1
        next_is_punct == i + 1 <= Len(tokens) /\ IsPunctToken(tokens[i + 1])
        no_next == i + 1 > Len(tokens) \/ tokens[i + 1] = <<>>
        near_full == 2 * s2.cur_len >= limit
    IN  IF (IsPunctToken(tok) \/ (near_full /\ (next_is_punct \/ no_next))) /\ s2.cur # <<>>
        THEN [chunks |-> Append(s2.chunks, Concat(s2.cur)), cur |-> <<>>, cur_len |-> 0]
        ELSE s2

\* one pass of the loop of lines 96-124 over tokens[i]
ChunkTokenStep(tokens, i, st, limit) ==
    LET tok == tokens[i]
        tlen == Len(tok)
        \* lines 101-103
        s1 == IF st.cur_len + tlen > limit /\ st.cur # <<>>
              THEN [chunks |-> Append(st.chunks, Concat(st.cur)), cur |-> <<>>, cur_len |-> 0]
              ELSE st
        \* lines 106-116: the cut of lines 108-114 is never reached
        s2 == IF tlen <= limit
              THEN [s1 EXCEPT !.cur = Append(s1.cur, tok), !.cur_len = s1.cur_len + tlen]
              ELSE s1
        \* lines 119-124
        next_is_punct == i + 1 <= Len(tokens) /\ IsPunctToken(tokens[i + 1])
        no_next == i + 1 > Len(tokens) \/ tokens[i + 1] = <<>>
        near_full == 5 * s2.cur_len >= 4 * limit
    IN  IF (IsPunctToken(tok) \/ (near_full /\ (next_is_punct \/ no_next))) /\ s2.cur # <<>>
        THEN [chunks |-> Append(s2.chunks, Concat(s2.cur)), cur |-> <<>>, cur_len |-> 0]
        ELSE s2

RECURSIVE ChunkTokenLoop(_, _, _, _)
ChunkTokenLoop(tokens, i, st, limit) ==
    IF i > Len(tokens)
    THEN IF st.cur # <<>> THEN Append(st.chunks, Concat(st.cur)) ELSE st.chunks
    ELSE ChunkTokenLoop(tokens, i + 1, ChunkTokenStep(tokens, i, st, limit), limit)

\* lines 130-137
RECURSIVE Refine(_, _)
Refine(chunks, limit) ==
    IF chunks = <<>> THEN <<>>
    ELSE LET ch == Head(chunks)
         IN  IF Len(ch) > limit
             THEN <<SubSeq(ch, 1, limit)>>
                  \o Refine(<<SubSeq(ch, limit + 1, Len(ch))>> \o Tail(chunks), limit)
             ELSE IF ch # <<>> THEN <<ch>> \o Refine(Tail(chunks), limit)
             ELSE Refine(Tail(chunks), limit)

_chunk_tokens_cjk(c, tokens) ==
    LET limit == c.max_line_chars * c.max_lines_per_caption
    IN  Refine(ChunkTokenLoop(tokens, 1, [chunks |-> <<>>, cur |-> <<>>, cur_len |-> 0], limit),
               limit)

----------------------------------------------------------------------------
(* Durations and captions: _allocate_durations and _split_and_time *)

\* max(self.min_duration, min(self.max_duration, dur))
Clamp(c, dur) == RMax(c.min_duration, RMin(c.max_duration, dur))

\* min(max(len / target_cps, min_duration), max_duration), lines 194-196, 254-255
Desired(c, len) == RMin(RMax(c.min_duration, RDiv(RInt(len), c.target_cps)), c.max_duration)

_allocate_durations(c, start, end, chunks) ==
    LET total_dur == RMax(RZero, RSub(end, start))
        n == Len(chunks)
        desired == [i \in 1..n |-> Desired(c, Max(1, Len(chunks[i])))]
        sum_desired == RSum(desired)
        scale == RDiv(total_dur, sum_desired)
        result == [i \in 1..n |-> Clamp(c, RMul(desired[i], scale))]
        diff == RSub(total_dur, RSum(result))
        step == RDiv(diff, RInt(n))
        spread == [i \in 1..n |-> Clamp(c, RAdd(result[i], step))]
    IN  IF RLe(total_dur, RZero) \/ chunks = <<>> THEN <<>>
        ELSE IF sum_desired = RZero THEN [i \in 1..n |-> RDiv(total_dur, RInt(n))]
        ELSE IF RLt(Rat(1, 1000), RAbs(diff))
             THEN [spread EXCEPT ![n] = RAdd(spread[n], RSub(total_dur, RSum(spread)))]
        ELSE result

\* lines 254-257 and 260: the desired durations scaled to the segment
ScaledDurations(c, duration, chunks) ==
    LET n == Len(chunks)
        durs == [i \in 1..n |-> Desired(c, Len(chunks[i]))]
        sum_raw == IF RSum(durs) = RZero THEN RInt(n) ELSE RSum(durs)
        scale == RDiv(duration, sum_raw)
    IN  [i \in 1..n |-> RMul(durs[i], scale)]

\* str.rfind(ch, lo, hi): the last offset in lo..hi-1 that holds ch, or -1
RFind(s, ch, lo, hi) ==
    LET hits == {i \in lo..(Min(hi, Len(s)) - 1) : s[i + 1] = ch}
    IN  IF hits = {} THEN -1 ELSE CHOOSE i \in hits : \A j \in hits : j <= i

\* lines 262-267: the chunk folded into two lines
TwoLines(c, chunk) ==
    LET half == (Len(chunk) + 1) \div 2
        found == IF \E i \in 1..Len(chunk) : chunk[i] = " "
                 THEN RFind(chunk, " ", 0, half) ELSE -1
        pos == IF found = -1 \/ found < c.max_line_chars \div 2 THEN half ELSE found
        line1 == Strip(Slice(chunk, 0, pos))
        line2 == Strip(Slice(chunk, pos, Len(chunk)))
    IN  IF line2 = <<>> THEN line1 ELSE line1 \o <<"\n">> \o line2

\* the same loops without `cur_t += d`: every caption starts where the first does
RECURSIVE MutPlaceNoAdvance(_, _, _, _)
MutPlaceNoAdvance(cur_t, end, texts, durs) ==
    IF texts = <<>> \/ durs = <<>> THEN <<>>
    ELSE <<[start |-> cur_t, end |-> RMin(end, RAdd(cur_t, Head(durs))),
            text |-> Head(texts)]>>
         \o MutPlaceNoAdvance(cur_t, end, Tail(texts), Tail(durs))

\* the loops of lines 240-243 and 258-269: zip(chunks, durs) from cur_t on
RECURSIVE Place(_, _, _, _)
Place(cur_t, end, texts, durs) ==
    IF texts = <<>> \/ durs = <<>> THEN <<>>
    ELSE <<[start |-> cur_t, end |-> RMin(end, RAdd(cur_t, Head(durs))),
            text |-> Head(texts)]>>
         \o Place(RAdd(cur_t, Head(durs)), end, Tail(texts), Tail(durs))

\* lines 244-245 and 270-271
EndLast(subs, end) ==
    IF subs = <<>> THEN subs ELSE [subs EXCEPT ![Len(subs)].end = end]

\* the chunks _split_and_time cuts the segment's text into
SegChunks(c, hasJieba, glue, seg) ==
    IF c.cjk_mode THEN _chunk_tokens_cjk(c, _tokenize_cjk(hasJieba, glue, seg.text))
    ELSE _soft_split_chunks(c, seg.text)

\* lines 226-228: nothing to show
NoCaption(seg) == RLe(RMax(RZero, RSub(seg.end, seg.start)), RZero) \/ seg.text = <<>>

\* the durations _split_and_time gives the chunks (`durs`, and `dur` of line 260)
SegDurations(c, hasJieba, glue, seg) ==
    LET chunks == SegChunks(c, hasJieba, glue, seg)
    IN  IF NoCaption(seg) \/ chunks = <<>> THEN <<>>
        ELSE IF c.cjk_mode THEN _allocate_durations(c, seg.start, seg.end, chunks)
        ELSE ScaledDurations(c, RMax(RZero, RSub(seg.end, seg.start)), chunks)

_split_and_time(c, hasJieba, glue, seg) ==
    LET chunks == SegChunks(c, hasJieba, glue, seg)
        durs == SegDurations(c, hasJieba, glue, seg)
        texts == [i \in 1..Len(chunks) |->
                     IF c.cjk_mode THEN Strip(chunks[i]) ELSE TwoLines(c, chunks[i])]
    IN  IF NoCaption(seg) \/ chunks = <<>> THEN <<>>
        ELSE EndLast(Place(seg.start, seg.end, texts, durs), seg.end)

----------------------------------------------------------------------------
(* The serializer *)

\* int(round(x)) for x >= 0: to the nearest integer, a tie to the even one
RoundHalfEven(r) ==
    LET q == r.n \div r.d
        rem == r.n - q * r.d
    IN  IF 2 * rem < r.d THEN q
        ELSE IF 2 * rem > r.d THEN q + 1
        ELSE IF q % 2 = 0 THEN q ELSE q + 1

\* _format_timestamp: the fields of HH:MM:SS,mmm
_format_timestamp(seconds) ==
    LET total_ms == RoundHalfEven(RMul(RMax(RZero, seconds), RInt(1000)))
        rem1 == total_ms % 3600000
        rem2 == rem1 % 60000
    IN  [h |-> total_ms \div 3600000, m |-> rem1 \div 60000,
         s |-> rem2 \div 1000, ms |-> rem2 % 1000]

\* the milliseconds a written timestamp stands for
StampMs(ts) == ts.h * 3600000 + ts.m * 60000 + ts.s * 1000 + ts.ms

\* lines 310-312: one entry per caption, numbered by enumerate(final_subs, 1)
Entries(final_subs) ==
    [i \in 1..Len(final_subs) |->
        [index |-> i,
         start |-> _format_timestamp(final_subs[i].start),
         end |-> _format_timestamp(final_subs[i].end),
         text |-> final_subs[i].text]]

----------------------------------------------------------------------------
(* write_srt, piece by piece *)

\* lines 281-286
RECURSIVE CleanAll(_, _)
CleanAll(c, segs) ==
    IF segs = <<>> THEN <<>>
    ELSE LET text == _clean_text(c, Head(segs).text)
         IN  IF _should_skip_segment(text) THEN CleanAll(c, Tail(segs))
             ELSE <<[start |-> Head(segs).start, end |-> Head(segs).end, text |-> text]>>
                  \o CleanAll(c, Tail(segs))

\* lines 305-307, kept per merged segment
SplitAll(c, hasJieba, glue, mg) ==
    [k \in 1..Len(mg) |-> _split_and_time(c, hasJieba, glue, mg[k])]

DursAll(c, hasJieba, glue, mg) ==
    [k \in 1..Len(mg) |-> SegDurations(c, hasJieba, glue, mg[k])]

\* what write_srt writes for `segs`
Written(c, hasJieba, glue, segs) ==
    IF segs = <<>> \/ CleanAll(c, segs) = <<>> THEN <<>>
    ELSE Entries(Concat(SplitAll(c, hasJieba, glue, Merge(c, CleanAll(c, segs)))))

----------------------------------------------------------------------------
(* Configurations *)

\* SubtitleWriter(): the defaults of __init__
CfgDefault ==
    [max_line_chars |-> 42, max_lines_per_caption |-> 2, target_cps |-> RInt(15),
     min_duration |-> RInt(1), max_duration |-> RInt(6), merge_short_gap |-> RInt(1),
     merge_max_chars |-> 200, cjk_mode |-> FALSE]

\* the writer main.py builds for Chinese
CfgZh ==
    [max_line_chars |-> 14, max_lines_per_caption |-> 1, target_cps |-> Rat(19, 2),
     min_duration |-> RInt(1), max_duration |-> RInt(3), merge_short_gap |-> Rat(1, 5),
     merge_max_chars |-> 60, cjk_mode |-> TRUE]

\* the defaults with max_line_chars = 10 and merge_short_gap = 0.2
CfgTen == [CfgDefault EXCEPT !.max_line_chars = 10, !.merge_short_gap = Rat(1, 5)]

\* small writers, whose limits short texts reach
CfgSmall ==
    [max_line_chars |-> 2, max_lines_per_caption |-> 2, target_cps |-> RInt(2),
     min_duration |-> RInt(1), max_duration |-> RInt(2), merge_short_gap |-> Rat(1, 5),
     merge_max_chars |-> 200, cjk_mode |-> FALSE]

CfgSmallZh ==
    [max_line_chars |-> 3, max_lines_per_caption |-> 1, target_cps |-> RInt(2),
     min_duration |-> RInt(1), max_duration |-> RInt(2), merge_short_gap |-> Rat(1, 5),
     merge_max_chars |-> 12, cjk_mode |-> TRUE]

Configs == {CfgDefault, CfgZh, CfgTen, CfgSmall, CfgSmallZh}

----------------------------------------------------------------------------
(* The inputs of write_srt *)

Seg(s, e, t) == [start |-> s, end |-> e, text |-> t]

\* spans of the segments put together into lists: 0-1, 1.1-2, one that ends
\* before it starts, one that starts below zero
SampleSpans == {<<RInt(0), RInt(1)>>, <<Rat(11, 10), RInt(2)>>,
                <<RInt(2), RInt(1)>>, <<RInt(-1), Rat(1, 2)>>}

TextHi == <<"h", "i">>
TextThere == <<"t", "h", "e", "r", "e">>
TextHelloWorld ==
    <<"h", "e", "l", "l", "o", " ", "w", "o", "r", "l", "d", " ", "t", "h", "i", "s", " ",
      "i", "s", " ", "a", " ", "t", "e", "s", "t">>
TextMusic == <<"[", "M", "u", "s", "i", "c", "]">>
TextNiHao == <<"ni", "hao", "fwcomma", "shi", "jie", "fwstop">>
TextClauses == <<"ni", "fwcomma", "hao", "fwcomma", "shi", "fwcomma", "jie", "fwstop">>
TextYinYue == <<"[", "yin", "yue", "]">>

SampleTexts(c) ==
    IF c.cjk_mode THEN {TextNiHao, TextClauses, TextYinYue}
    ELSE {TextHi, TextThere, TextMusic}

SampleSegs(c) == {Seg(sp[1], sp[2], t) : sp \in SampleSpans, t \in SampleTexts(c)}

\* single segments, every text over a small alphabet, every duration of the grid
SmallAlphabet == {"a", " ", ","}

SmallSegs ==
    {Seg(RInt(1), RAdd(RInt(1), Rat(3 * k, 4)), t) :
        k \in 0..MaxTick, t \in SeqsUpTo(SmallAlphabet, MaxTextLen)}

\* the scenarios of the specification: 0-4 s "hello world this is a test",
\* 0-3 s U+4F60 U+597D U+FF0C U+4E16 U+754C U+3002
ScenarioSegs(c) ==
    IF c.cjk_mode THEN {Seg(RInt(0), RInt(3), TextNiHao)}
    ELSE {Seg(RInt(0), RInt(4), TextHelloWorld)}

Inputs(c) ==
    SeqsUpTo(SampleSegs(c), MaxSegs)
    \cup {<<sg>> : sg \in ScenarioSegs(c)}
    \cup (IF c \in {CfgSmall, CfgSmallZh} THEN {<<sg>> : sg \in SmallSegs} ELSE {})

Glues(c, hasJieba) == IF c.cjk_mode /\ hasJieba THEN SUBSET (1..MaxGlue) ELSE {{}}

----------------------------------------------------------------------------
(* The writer: constructed, then write_srt called once *)

\* jieba is read in cjk mode only (line 230)
Init ==
    /\ cfg \in Configs
    /\ jieba \in (IF cfg.cjk_mode THEN BOOLEAN ELSE {FALSE})
    /\ pc = "idle"
    /\ segments = <<>>
    /\ tok_glue = {}
    /\ cleaned = <<>>
    /\ merged = <<>>
    /\ seg_durs = <<>>
    /\ seg_subs = <<>>
    /\ output = <<>>
    /\ san_in = <<>>
    /\ san_hist = <<>>
    /\ IdleChunker
    /\ IdleMain

\* lines 276-278: no segments, an empty file
WriteSrtNoSegments ==
    /\ pc = "idle"
    /\ \E segs \in Inputs(cfg) :
        /\ segs = <<>>
        /\ segments' = segs
    /\ pc' = "done"
    /\ output' = <<>>
    /\ UNCHANGED <<cfg, jieba, tok_glue, cleaned, merged, seg_durs, seg_subs,
                   san_in, san_hist, chunkVars, mainVars>>

\* lines 281-290: every segment skipped, an empty file
WriteSrtNothingKept ==
    /\ pc = "idle"
    /\ \E segs \in Inputs(cfg) :
        /\ segs # <<>>
        /\ CleanAll(cfg, segs) = <<>>
        /\ segments' = segs
    /\ pc' = "done"
    /\ cleaned' = <<>>
    /\ output' = <<>>
    /\ UNCHANGED <<cfg, jieba, tok_glue, merged, seg_durs, seg_subs, san_in, san_hist,
                   chunkVars, mainVars>>

\* lines 281-313: clean, merge, split and time, write
WriteSrtCaptions ==
    /\ pc = "idle"
    /\ \E segs \in Inputs(cfg) : \E glue \in Glues(cfg, jieba) :
        /\ segs # <<>>
        /\ CleanAll(cfg, segs) # <<>>
        /\ segments' = segs
        /\ tok_glue' = glue
        /\ cleaned' = CleanAll(cfg, segs)
        /\ merged' = Merge(cfg, cleaned')
        /\ seg_durs' = DursAll(cfg, jieba, glue, merged')
        /\ seg_subs' = SplitAll(cfg, jieba, glue, merged')
        /\ output' = Entries(Concat(seg_subs'))
    /\ pc' = "done"
    /\ UNCHANGED <<cfg, jieba, san_in, san_hist, chunkVars, mainVars>>

Next == WriteSrtNoSegments \/ WriteSrtNothingKept \/ WriteSrtCaptions

Spec == Init /\ [][Next]_vars

----------------------------------------------------------------------------
(* The sanitizer run alone, pass after pass *)

SanAlphabet == {"a", " ", "\n", ",", "-"}

SanSamples ==
    {<<"[", "M", "u", "s", "i", "c", "]">>, <<"(", " ", "n", "o", "i", "s", "e", ")">>,
     <<"note">>, <<"yin", "yue">>, <<" ", "ni", "hao", "fwcomma", " ">>,
     <<"a", " ", " ", " ", "a">>, <<"a", " ", ",", "b", ".", "c">>}

SanInputs == SeqsUpTo(SanAlphabet, MaxSanLen) \cup SanSamples

Sanitized(c, text) ==
    LET t == _clean_text(c, text)
    IN  [text |-> t, kept |-> ~_should_skip_segment(t)]

IdleWriter ==
    /\ jieba = FALSE
    /\ pc = "idle"
    /\ segments = <<>>
    /\ tok_glue = {}
    /\ cleaned = <<>>
    /\ merged = <<>>
    /\ seg_durs = <<>>
    /\ seg_subs = <<>>
    /\ output = <<>>

SanInit ==
    /\ cfg \in Configs
    /\ san_in \in SanInputs
    /\ san_hist = <<>>
    /\ IdleWriter
    /\ IdleChunker
    /\ IdleMain

\* the sanitizer's first pass over a raw text
SanFirst ==
    /\ san_hist = <<>>
    /\ san_hist' = <<Sanitized(cfg, san_in)>>
    /\ UNCHANGED <<cfg, san_in, writerVars, chunkVars, mainVars>>

\* one more pass, over a text the last pass cleaned and kept
SanAgain ==
    /\ Len(san_hist) = 1
    /\ san_hist[1].kept
    /\ san_hist' = Append(san_hist, Sanitized(cfg, san_hist[1].text))
    /\ UNCHANGED <<cfg, san_in, writerVars, chunkVars, mainVars>>

SanNext == SanFirst \/ SanAgain

SpecSan == SanInit /\ [][SanNext]_vars

----------------------------------------------------------------------------
(* The two chunkers run alone, on a list of words or of tokens *)

MaxTokens == 4      \* words or tokens in one text

\* a word longer than the small writers' limits
LongToken == <<"a", "a", "a", "a", "a">>

ChunkTokens == {<<"a">>, <<",">>, <<"a", "a">>, LongToken}

\* every short list of these, and the characters of the scenario's text
ChunkInputs == SeqsUpTo(ChunkTokens, MaxTokens) \cup {Chars(TextNiHao)}

ChunkInit ==
    /\ cfg \in Configs
    /\ chunk_in \in ChunkInputs
    /\ chunk_out = <<>>
    /\ chunk_pc = "idle"
    /\ IdleWriter
    /\ IdleSan
    /\ IdleMain

\* line 249, the text being the words with one space between them
ChunkSoftSplit ==
    /\ chunk_pc = "idle"
    /\ ~cfg.cjk_mode
    /\ chunk_out' = _soft_split_chunks(cfg, JoinSpace(chunk_in))
    /\ chunk_pc' = "done"
    /\ UNCHANGED <<cfg, chunk_in, writerVars, sanVars, mainVars>>

\* line 234
ChunkTokensCjk ==
    /\ chunk_pc = "idle"
    /\ cfg.cjk_mode
    /\ chunk_out' = _chunk_tokens_cjk(cfg, chunk_in)
    /\ chunk_pc' = "done"
    /\ UNCHANGED <<cfg, chunk_in, writerVars, sanVars, mainVars>>

ChunkNext == ChunkSoftSplit \/ ChunkTokensCjk

SpecChunk == ChunkInit /\ [][ChunkNext]_vars

----------------------------------------------------------------------------
(* main.py: the loop over the videos, with SubtitleGenerator's               *)
(* generate_segments (src/subtitle_generator.py)                             *)

MaxVideos == 2          \* videos in the folder
MaxTranscribed == 3     \* segments one transcription gives

\* Python values as main.py handles them
PyList(items) == [type |-> "list", items |-> items]
PyDict(fields) == [type |-> "dict", fields |-> fields]
PyNone == [type |-> "None"]

\* the list generate_segments builds out of n transcribed segments
\* (lines 129-135, 172-179): one dict per segment
Transcribed(n) == PyList([i \in 1..n |-> PyDict(Seg(RInt(i - 1), RInt(i), TextHi))])

\* what a call of generate_segments comes to: RuntimeError (lines 148-149,
\* 183-184) or `return segments` (lines 146, 181)
GenerateResults ==
    {[raised |-> TRUE, value |-> PyNone]}
    \cup {[raised |-> FALSE, value |-> Transcribed(n)] : n \in 0..MaxTranscribed}

\* the videos find_videos returns have no .srt beside them or an empty one
Videos == [srt : {"absent", "empty"}, transcription : GenerateResults]

generate_segments(video) == video.transcription

\* sys.argv[2], lines 22-25
Languages == {"auto", "zh", "en"}

\* line 55, `segments, detected = ...`: ValueError unless the value has
\* exactly two items
Unpack(value) ==
    IF value.type = "list" /\ Len(value.items) = 2
    THEN [raised |-> FALSE, segments |-> value.items[1], detected |-> value.items[2]]
    ELSE [raised |-> TRUE, segments |-> PyNone, detected |-> PyNone]

\* line 64: str(detected).startswith("zh"), of a dict "{...}"
DetectedZh(detected) == detected.type = "str" /\ detected.value = "zh"

\* write_srt, line 283: iterating a dict gives its keys, and a str has no
\* attribute `get` (AttributeError)
WriteSrtRaises(arg) == arg.type = "dict"

\* the segments of a list of dicts
SegsOf(arg) == [i \in 1..Len(arg.items) |-> arg.items[i].fields]

MainInit ==
    /\ language \in Languages
    /\ video_files \in SeqsUpTo(Videos, MaxVideos) \ {<<>>}
    /\ idx = 0
    /\ success_count = 0
    /\ error_count = 0
    /\ out_srt = <<>>
    /\ write_srt_args = <<>>
    /\ raised_in = <<>>
    /\ cfg = CfgDefault
    /\ IdleWriter
    /\ IdleSan
    /\ IdleChunker

\* lines 47-48: the .srt is there already
MainSkipExisting ==
    /\ idx < Len(video_files)
    /\ video_files[idx + 1].srt # "absent"
    /\ idx' = idx + 1
    /\ success_count' = success_count + 1
    /\ out_srt' = Append(out_srt, video_files[idx + 1].srt)
    /\ write_srt_args' = Append(write_srt_args, <<>>)
    /\ raised_in' = Append(raised_in, "")
    /\ UNCHANGED <<cfg, language, video_files, error_count, writerVars, sanVars, chunkVars>>

\* lines 50-101: transcribe, build the writer, write; `except Exception`
\* leaves an empty .srt
MainProcessVideo ==
    /\ idx < Len(video_files)
    /\ video_files[idx + 1].srt = "absent"
    /\ LET want_zh == language = "zh"
           ret == generate_segments(video_files[idx + 1])
           got == IF ret.raised THEN Unpack(PyNone) ELSE Unpack(ret.value)
           is_zh == want_zh \/ DetectedZh(got.detected)
           writer == IF is_zh THEN CfgZh ELSE CfgDefault
           raised == IF ret.raised THEN "generate_segments"
                     ELSE IF got.raised THEN "unpack"
                     ELSE IF WriteSrtRaises(got.segments) THEN "write_srt"
                     ELSE ""
       IN  /\ raised_in' = Append(raised_in, raised)
           /\ cfg' = IF raised \in {"write_srt", ""} THEN writer ELSE cfg
           /\ write_srt_args' =
                Append(write_srt_args,
                       IF raised \in {"write_srt", ""} THEN <<got.segments>> ELSE <<>>)
           /\ IF raised # ""
              THEN /\ out_srt' = Append(out_srt, "empty")
                   /\ error_count' = error_count + 1
                   /\ UNCHANGED success_count
              ELSE /\ out_srt' =
                        Append(out_srt,
                               IF Written(writer, jieba, {}, SegsOf(got.segments)) = <<>>
                               THEN "empty" ELSE "captions")
                   /\ success_count' = success_count + 1
                   /\ UNCHANGED error_count
    /\ idx' = idx + 1
    /\ UNCHANGED <<language, video_files, writerVars, sanVars, chunkVars>>

MainNext == MainSkipExisting \/ MainProcessVideo

SpecMain == MainInit /\ [][MainNext]_vars

----------------------------------------------------------------------------
(* The claims *)

Done == pc = "done"

\* the merged segments that write_srt turned into captions
Captioned == {k \in 1..Len(seg_subs) : seg_subs[k] # <<>>}

CaptionLength(sub) == RSub(sub.end, sub.start)

\* C1: for every merged segment that became captions, the captions' lengths
\* (end - start) add up to the segment's end - start, within 1e-3 s.
DurationConserved ==
    Done => \A k \in Captioned :
        RLe(RAbs(RSub(RSum([i \in 1..Len(seg_subs[k]) |-> CaptionLength(seg_subs[k][i])]),
                      RSub(merged[k].end, merged[k].start))),
            Rat(1, 1000))

\* C2: every caption lies within its merged segment:
\* segment.start <= caption.start <= caption.end <= segment.end.
SpanContained ==
    Done => \A k \in Captioned : \A i \in 1..Len(seg_subs[k]) :
        /\ RLe(merged[k].start, seg_subs[k][i].start)
        /\ RLe(seg_subs[k][i].start, seg_subs[k][i].end)
        /\ RLe(seg_subs[k][i].end, merged[k].end)

\* 0 <= seg[i].start <= seg[i].end <= seg[i+1].start
OrderedInput(segs) ==
    /\ \A i \in 1..Len(segs) : RLe(RZero, segs[i].start) /\ RLe(segs[i].start, segs[i].end)
    /\ \A i \in 1..(Len(segs) - 1) : RLe(segs[i].end, segs[i + 1].start)

\* the timestamps of the file in reading order: start_1, end_1, start_2, end_2, ...
WrittenStamps ==
    [j \in 1..(2 * Len(output)) |->
        IF j % 2 = 1 THEN StampMs(output[(j + 1) \div 2].start)
        ELSE StampMs(output[j \div 2].end)]

\* C3: for time-ordered, non-overlapping input the written timestamps never
\* decrease, and no caption's timestamp lies after the end of its merged segment.
TimestampsMonotone ==
    (Done /\ OrderedInput(segments)) =>
        /\ \A j \in 1..(2 * Len(output) - 1) : WrittenStamps[j] <= WrittenStamps[j + 1]
        /\ \A k \in Captioned : \A i \in 1..Len(seg_subs[k]) :
            /\ StampMs(_format_timestamp(seg_subs[k][i].start))
                 <= StampMs(_format_timestamp(merged[k].end))
            /\ StampMs(_format_timestamp(seg_subs[k][i].end))
                 <= StampMs(_format_timestamp(merged[k].end))

\* the captions' texts joined (by a space, by nothing in cjk mode), line breaks
\* being whitespace (\s matches them), runs of whitespace collapsed
RECURSIVE JoinTexts(_, _)
JoinTexts(texts, sep) ==
    IF texts = <<>> THEN <<>>
    ELSE IF Len(texts) = 1 THEN texts[1]
    ELSE texts[1] \o sep \o JoinTexts(Tail(texts), sep)

Rebuilt(subs) ==
    Strip(CollapseWs(JoinTexts([i \in 1..Len(subs) |-> subs[i].text],
                               IF cfg.cjk_mode THEN <<>> ELSE <<" ">>)))

\* C4: a merged segment's caption texts, put together again, give the
\* segment's text (whitespace runs counting as one space on both sides).
TextReconstructed ==
    Done => \A k \in Captioned : Rebuilt(seg_subs[k]) = Strip(CollapseWs(merged[k].text))

\* str.split('\n')
RECURSIVE LinesOf(_)
LinesOf(t) ==
    IF \E i \in 1..Len(t) : t[i] = "\n"
    THEN LET i == CHOOSE i \in 1..Len(t) : t[i] = "\n" /\ \A j \in 1..(i - 1) : t[j] # "\n"
         IN  <<SubSeq(t, 1, i - 1)>> \o LinesOf(SubSeq(t, i + 1, Len(t)))
    ELSE <<t>>

\* every word of every input text has at most max_line_chars characters
ShortWords(segs) ==
    \A i \in 1..Len(segs) : \A j \in 1..Len(Split(segs[i].text)) :
        Len(Split(segs[i].text)[j]) <= cfg.max_line_chars

\* C5: for input whose words are no longer than max_line_chars, no written
\* line is longer than max_line_chars and no caption has more than
\* max_lines_per_caption lines.
LineWidthBound ==
    (Done /\ ShortWords(segments)) =>
        \A e \in 1..Len(output) :
            /\ Len(LinesOf(output[e].text)) <= cfg.max_lines_per_caption
            /\ \A l \in 1..Len(LinesOf(output[e].text)) :
                Len(LinesOf(output[e].text)[l]) <= cfg.max_line_chars

InClamp(d) == RLe(cfg.min_duration, d) /\ RLe(d, cfg.max_duration)

\* C6: every duration given to a chunk, and every caption's end - start, lies
\* within [min_duration, max_duration].
DurationClamped ==
    Done => \A k \in Captioned :
        /\ \A i \in 1..Len(seg_durs[k]) : InClamp(seg_durs[k][i])
        /\ \A i \in 1..Len(seg_subs[k]) : InClamp(CaptionLength(seg_subs[k][i]))

\* C7: within a merged segment each caption starts after the one before it
\* and not before that one ends; the written entries are the captions in the
\* order of their segments, numbered 1, 2, ..., M.
OrderedAndNumbered ==
    Done =>
        /\ \A k \in Captioned : \A i \in 1..(Len(seg_subs[k]) - 1) :
            /\ RLt(seg_subs[k][i].start, seg_subs[k][i + 1].start)
            /\ RLe(seg_subs[k][i].end, seg_subs[k][i + 1].start)
        /\ Len(output) = SumLen(seg_subs)
        /\ \A e \in 1..Len(output) :
            /\ output[e].index = e
            /\ output[e].text = Concat(seg_subs)[e].text
            /\ output[e].start = _format_timestamp(Concat(seg_subs)[e].start)

\* two merged segments became captions, one of them three or more
OrderedAndNumberedWitness ==
    /\ Done
    /\ Cardinality(Captioned) >= 2
    /\ \E k \in Captioned : Len(seg_subs[k]) >= 3
    /\ Len(output) >= 5

\* punctuation marks and brackets, character by character
Marks == LatinPunct \cup CJK_PUNCTS \cup {"-", "[", "]", "(", ")"}

\* a text the sanitizer is to drop: empty, whitespace only, punctuation only,
\* a music or a noise marker
NoiseText(t) ==
    \/ t = <<>>
    \/ \A i \in 1..Len(t) : t[i] \in WS \cup Marks
    \/ t \in {TextMusic, TextYinYue}

Malformed(sg) == RLt(sg.end, sg.start) \/ RLt(sg.start, RZero) \/ RLt(sg.end, RZero)

Without(segs, i) == SubSeq(segs, 1, i - 1) \o SubSeq(segs, i + 1, Len(segs))

\* C9: a malformed segment leaves no trace: the file is the one write_srt
\* writes for the list without it.
MalformedDropped ==
    Done => \A i \in 1..Len(segments) :
        Malformed(segments[i]) =>
            output = Written(cfg, jieba, tok_glue, Without(segments, i))

\* C10: a second pass of the sanitizer over a text it cleaned and kept
\* returns the same text and keeps it.
SanitizerIdempotent ==
    Len(san_hist) = 2 => san_hist[2] = san_hist[1]

\* a second pass has run over a text the first pass changed and kept
SanitizerIdempotentWitness ==
    /\ Len(san_hist) = 2
    /\ san_hist[1].text # san_in
    /\ ~cfg.cjk_mode
    /\ Len(san_hist[1].text) > Len(san_in)

\* the k-th smallest element of a set of numbers
KthOf(S, k) == CHOOSE e \in S : Cardinality({x \in S : x <= e}) = k

\* the texts of cleaned[lo..hi] joined as the mode joins them
GroupText(lo, hi) ==
    JoinTexts([j \in 1..(hi - lo + 1) |-> cleaned[lo + j - 1].text],
              IF cfg.cjk_mode THEN <<>> ELSE <<" ">>)

\* the join test against the accumulator holding cleaned[lo..j - 1]
Joins(lo, j) ==
    /\ RLt(RSub(cleaned[j].start, cleaned[j - 1].end), cfg.merge_short_gap)
    /\ Len(GroupText(lo, j - 1)) + Len(cleaned[j].text) < cfg.merge_max_chars

\* `merged` is `cleaned` cut into consecutive groups, `ends` being the last
\* index of each group: a segment joins its group exactly when the test
\* passes, and each merged segment spans and spells its group
GroupedBy(ends) ==
    LET lo(k) == IF k = 1 THEN 1 ELSE KthOf(ends, k - 1) + 1
        hi(k) == KthOf(ends, k)
    IN  /\ Len(merged) = Cardinality(ends)
        /\ \A k \in 1..Len(merged) :
            /\ merged[k].start = cleaned[lo(k)].start
            /\ merged[k].end = cleaned[hi(k)].end
            /\ merged[k].text = GroupText(lo(k), hi(k))
            /\ \A j \in (lo(k) + 1)..hi(k) : Joins(lo(k), j)
            /\ k < Len(merged) => ~Joins(lo(k), hi(k) + 1)

ScenarioC == <<Seg(RInt(0), RInt(1), TextHi), Seg(Rat(11, 10), RInt(2), TextThere)>>

MinLength(c) == IF c.cjk_mode THEN 1 ELSE 2

\* C13: a segment whose trimmed text is shorter than the mode's minimum (1
\* character in cjk mode, 2 otherwise) is discarded and gives no caption: no
\* kept text is shorter, and a call whose texts are all shorter writes nothing.
SanitizerMinimum ==
    Done =>
        /\ \A j \in 1..Len(cleaned) : Len(Strip(cleaned[j].text)) >= MinLength(cfg)
        /\ (\A i \in 1..Len(segments) : Len(Strip(segments[i].text)) < MinLength(cfg))
            => output = <<>>

Limit(c) == c.max_line_chars * c.max_lines_per_caption

\* a text without its spaces
RECURSIVE NoSpaces(_)
NoSpaces(t) ==
    IF t = <<>> THEN <<>>
    ELSE IF t[1] = " " THEN NoSpaces(Tail(t))
    ELSE <<t[1]>> \o NoSpaces(Tail(t))

\* C12: no chunk of either chunker is longer than limit = max_line_chars x
\* max_lines_per_caption, and a word longer than limit is cut into pieces
\* wherever it stands: the chunks, spaces apart, spell the words handed in.
ChunkCeiling ==
    chunk_pc = "done" =>
        /\ \A k \in 1..Len(chunk_out) : Len(chunk_out[k]) <= Limit(cfg)
        /\ NoSpaces(Concat(chunk_out)) = Concat(chunk_in)

\* the tokens the loop puts into a chunk (line 106)
KeptToken(i) == Len(chunk_in[i]) <= Limit(cfg)

\* the characters of the kept tokens before token i
RECURSIVE KeptBefore(_)
KeptBefore(i) ==
    IF i <= 1 THEN 0
    ELSE KeptBefore(i - 1) + (IF KeptToken(i - 1) THEN Len(chunk_in[i - 1]) ELSE 0)

\* the characters of the chunks before chunk k
RECURSIVE ChunkStart(_)
ChunkStart(k) == IF k <= 1 THEN 0 ELSE ChunkStart(k - 1) + Len(chunk_out[k - 1])

\* the chunk token i lies in, none for a token that was not kept
ChunkOf(i) ==
    IF KeptToken(i)
    THEN {k \in 1..Len(chunk_out) :
            ChunkStart(k) <= KeptBefore(i) /\ KeptBefore(i) < ChunkStart(k + 1)}
    ELSE {}

SameChunk(i, j) == ChunkOf(i) # {} /\ ChunkOf(i) = ChunkOf(j)

\* token i is the last token of its chunk
EndsChunk(i) ==
    \E k \in ChunkOf(i) : KeptBefore(i) + Len(chunk_in[i]) = ChunkStart(k + 1)

\* the characters in token i's chunk once token i is in it
FillAfter(i) ==
    LET k == CHOOSE k \in ChunkOf(i) : TRUE
    IN  KeptBefore(i) + Len(chunk_in[i]) - ChunkStart(k)

\* a punctuation token right after a token that is none
PunctAfterWord(i) ==
    i > 1 /\ IsPunctToken(chunk_in[i]) /\ ~IsPunctToken(chunk_in[i - 1])

\* Scenario D: no chunk of U+4F60 U+597D U+FF0C U+4E16 U+754C U+3002 with
\* limit 14 starts with a punctuation mark
ScenarioD ==
    (chunk_in = Chars(TextNiHao) /\ Limit(cfg) = 14)
        => \A k \in 1..Len(chunk_out) : chunk_out[k][1] \notin CJK_PUNCTS

\* C14 as stated: in _chunk_tokens_cjk every punctuation token ends its
\* chunk, and a punctuation token that follows a non-punctuation token lies
\* in the chunk of that token, never at the start of a new chunk; Scenario D.
PunctuationAttached ==
    (chunk_pc = "done" /\ cfg.cjk_mode) =>
        /\ \A i \in 1..Len(chunk_in) : IsPunctToken(chunk_in[i]) => EndsChunk(i)
        /\ \A i \in 1..Len(chunk_in) : PunctAfterWord(i) => SameChunk(i - 1, i)
        /\ ScenarioD

\* C14, amended: in _chunk_tokens_cjk every punctuation token ends its chunk,
\* and a punctuation token that follows a non-punctuation token lies in the
\* chunk of that token whenever that token is no longer than limit and its
\* chunk, with the token in it, is below 80% of limit; Scenario D.
PunctuationAttachedBelowFull ==
    (chunk_pc = "done" /\ cfg.cjk_mode) =>
        /\ \A i \in 1..Len(chunk_in) : IsPunctToken(chunk_in[i]) => EndsChunk(i)
        /\ \A i \in 1..Len(chunk_in) :
            (/\ PunctAfterWord(i)
             /\ KeptToken(i - 1)
             /\ 5 * FillAfter(i - 1) < 4 * Limit(cfg))
                => SameChunk(i - 1, i)
        /\ ScenarioD

\* a punctuation mark joined the word before it in a chunk that had room,
\* and the chunker went on to a further chunk
PunctuationAttachedWitness ==
    /\ chunk_pc = "done"
    /\ cfg.cjk_mode
    /\ Len(chunk_out) >= 2
    /\ \E i \in 2..Len(chunk_in) :
        /\ PunctAfterWord(i)
        /\ KeptToken(i - 1)
        /\ 5 * FillAfter(i - 1) < 4 * Limit(cfg)
        /\ SameChunk(i - 1, i)

\* C15: for every video whose transcription succeeds, main's step calls
\* write_srt with the segment list generate_segments gave, and the error
\* branch is reached only when generate_segments or write_srt raised,
\* whatever the number of transcribed segments.
HandOff ==
    \A i \in 1..idx :
        video_files[i].srt = "absent" =>
            /\ ~generate_segments(video_files[i]).raised
                => /\ write_srt_args[i] = <<generate_segments(video_files[i]).value>>
                   /\ raised_in[i] \in {"", "write_srt"}
            /\ raised_in[i] \in {"", "generate_segments", "write_srt"}

====
